---------------------------- MODULE Spec2Model ----------------------------
(***************************************************************************)
(* gradle_cache_to_mvn_repo.py: scan a Gradle cache                        *)
(*   <cache>/caches/modules-*/files-*/<group>/<artifact>/<version>/<hash>/<file> *)
(* into an in-memory ArtifactRepo and write it out as a Maven layout       *)
(*   <target>/<group-as-path>/<artifact>/<version>/<file>.                 *)
(*                                                                         *)
(* Strings the program takes apart (group identifiers, the paths built     *)
(* from them) are sequences of tokens; every other name is one token.      *)
(* A source path is a record with one field per directory level, a target  *)
(* path is the sequence of its segments below the target root.             *)
(***************************************************************************)
EXTENDS Integers, Sequences, FiniteSets, TLC

(***************************************************************************)
(* Bounds of the source caches that are enumerated.                        *)
(***************************************************************************)
\* regular files in a cache
MaxFiles == 4
\* regular files in a cache that also holds a misplaced file or an empty
\* directory
MaxFilesBesideOdd == 2

RootNames == <<"modules-2/files-2.1", "modules-1/files-1.1">>
GroupIds == << <<"org", ".", "foo">>, <<"junit">> >>
ArtifactIds == <<"bar", "baz">>
VersionNames == <<"1.0.0", "2.0.0">>
HashNames == <<"abcd1234", "ef567890">>
FileNames == <<"bar.jar", "bar.pom">>

NoName == ""
NoGroup == <<>>

Range(s) == {s[i] : i \in DOMAIN s}

RECURSIVE Reverse(_)
Reverse(s) == IF s = <<>> THEN <<>> ELSE Append(Reverse(Tail(s)), Head(s))

RECURSIVE Flatten(_)
Flatten(ss) == IF ss = <<>> THEN <<>> ELSE Head(ss) \o Flatten(Tail(ss))

(***************************************************************************)
(* Source paths.  depth 1 = a modules-*/files-* directory, 2 = group,      *)
(* 3 = artifact, 4 = version, 5 = content hash, 6 = file.                  *)
(***************************************************************************)
Node(d, r, g, a, v, h, f) ==
    [depth |-> d, root |-> r, group |-> g, artifact |-> a,
     version |-> v, hash |-> h, file |-> f]

Prefix(n, d) ==
    Node(d, n.root,
         IF d >= 2 THEN n.group ELSE NoGroup,
         IF d >= 3 THEN n.artifact ELSE NoName,
         IF d >= 4 THEN n.version ELSE NoName,
         IF d >= 5 THEN n.hash ELSE NoName,
         IF d >= 6 THEN n.file ELSE NoName)

\* os.path.join(p, name) for a source path p and a directory entry name
Child(p, name) ==
    CASE p.depth = 1 -> [p EXCEPT !.depth = 2, !.group = name]
      [] p.depth = 2 -> [p EXCEPT !.depth = 3, !.artifact = name]
      [] p.depth = 3 -> [p EXCEPT !.depth = 4, !.version = name]
      [] p.depth = 4 -> [p EXCEPT !.depth = 5, !.hash = name]
      [] p.depth = 5 -> [p EXCEPT !.depth = 6, !.file = name]

LevelNames(d) ==
    CASE d = 1 -> RootNames
      [] d = 2 -> GroupIds
      [] d = 3 -> ArtifactIds
      [] d = 4 -> VersionNames
      [] d = 5 -> HashNames
      [] d = 6 -> FileNames

\* the levels at which a file takes the second name of its level
AltLevels(n) ==
    {d \in 1..6 :
        LevelNames(d)[2] = (CASE d = 1 -> n.root [] d = 2 -> n.group
                              [] d = 3 -> n.artifact [] d = 4 -> n.version
                              [] d = 5 -> n.hash [] d = 6 -> n.file)}

Leaves ==
    {Node(6, r, g, a, v, h, f) :
        r \in Range(RootNames), g \in Range(GroupIds), a \in Range(ArtifactIds),
        v \in Range(VersionNames), h \in Range(HashNames), f \in Range(FileNames)}

\* the files a cache is drawn from: the first name at every level, the
\* second name at one level, a second file in the second content-hash
\* directory, a second artifact of the first group under the second root
Universe ==
    {n \in Leaves :
        \/ \A d, e \in AltLevels(n) : d = e
        \/ AltLevels(n) = {5, 6}
        \/ AltLevels(n) = {1, 3}}

Inner == {Prefix(n, d) : n \in Universe, d \in 1..5}

\* p is q or lies below q
Under(p, q) == p.depth >= q.depth /\ Prefix(p, q.depth) = q

(***************************************************************************)
(* A cache: its regular files at depth 6 (files), regular files found      *)
(* where the layout expects a directory (nondirs) and directories with     *)
(* nothing in them (emptydirs).  Every directory above one of these        *)
(* exists.                                                                 *)
(***************************************************************************)
Entries(c) == c.files \cup c.nondirs \cup c.emptydirs

Consistent(c) ==
    \A p \in c.nondirs \cup c.emptydirs :
        \A n \in Entries(c) : n # p => ~Under(n, p)

AtMostOne(S) == {{}} \cup {{x} : x \in S}

Caches ==
    {c \in [files : {F \in SUBSET Universe : Cardinality(F) <= MaxFiles},
            nondirs : AtMostOne(Inner),
            emptydirs : AtMostOne(Inner)] :
        /\ c.nondirs = {} \/ c.emptydirs = {}
        /\ c.nondirs \cup c.emptydirs # {}
              => Cardinality(c.files) <= MaxFilesBesideOdd
        /\ Consistent(c)}

VARIABLES
    cache,      \* the Gradle cache directory tree (read only)
    listing,    \* the order in which the file system lists a directory
    pre_clean,  \* args.pre_clean_mvn_dir
    target,     \* the tree at args.target_mvn_dir: [dirs, files]
    run,        \* "first" or "second" invocation of main
    pc,         \* where main is
    error,      \* the exception that ended the run, "" if none
    repo,       \* gradle_cache.repo.groups, in insertion order
    todo,       \* what is left of the loop that main is in
    log,        \* the shutil.copyfile calls of this run
    prior       \* the target tree as this run found it

vars == <<cache, listing, pre_clean, target, run, pc, error, repo, todo, log, prior>>

(***************************************************************************)
(* Reading the cache: os.listdir, glob.glob.                               *)
(***************************************************************************)
Exists(p) == \E n \in Entries(cache) : Under(n, p)

\* faulty variant: a regular file is listed like an empty directory
ListdirOfFileIsEmpty(p) == FALSE

\* os.listdir(p) raises NotADirectoryError
ListdirRaises(p) == p \in cache.nondirs

InOrder(names) == IF listing = "forward" THEN names ELSE Reverse(names)

\* os.listdir(p): the names in p, in the order the file system yields them
Listdir(p) ==
    SelectSeq(InOrder(LevelNames(p.depth + 1)),
              LAMBDA name : Exists(Child(p, name)))

\* glob.glob(<cache>/caches/modules-*/files-*): every match, a directory or not
Glob ==
    SelectSeq([i \in DOMAIN InOrder(RootNames) |->
                   Node(1, InOrder(RootNames)[i], NoGroup, NoName, NoName, NoName, NoName)],
              Exists)

\* some os.listdir at or below p raises: __load_artifact lists p and every
\* version and content-hash entry below it
RaisesUnder(p) ==
    \E q \in Entries(cache) : q.depth <= 5 /\ Under(q, p) /\ ListdirRaises(q)

(***************************************************************************)
(* ArtifactEntry, Artifact, Group, ArtifactRepo.                           *)
(***************************************************************************)
ArtifactEntry(file_name, location) ==
    [file_name |-> file_name, location |-> location]

get_full_path(entry) == Child(entry.location, entry.file_name)

\* versioned_entries is a dict: a sequence of [version, entries] in
\* insertion order, one per key
HasVersion(versioned_entries, version) ==
    \E i \in DOMAIN versioned_entries : versioned_entries[i].version = version

append_entry(versioned_entries, version, entry) ==
    LET ve == IF ~HasVersion(versioned_entries, version)
              THEN Append(versioned_entries,
                          [version |-> version, entries |-> <<entry>>])
              ELSE versioned_entries
    IN  [i \in DOMAIN ve |->
            IF ve[i].version = version
            THEN [ve[i] EXCEPT !.entries = Append(@, entry)]
            ELSE ve[i]]

\* the ArtifactEntry objects __load_artifact_entries_by_version makes for one
\* version, in the order it makes them
VersionEntries(artifact_version_path) ==
    Flatten([i \in DOMAIN Listdir(artifact_version_path) |->
        LET gradle_hash_path ==
                Child(artifact_version_path, Listdir(artifact_version_path)[i])
        IN  [j \in DOMAIN Listdir(gradle_hash_path) |->
                ArtifactEntry(Listdir(gradle_hash_path)[j], gradle_hash_path)]])

RECURSIVE AppendAll(_, _, _)
AppendAll(versioned_entries, version, entries) ==
    IF entries = <<>> THEN versioned_entries
    ELSE AppendAll(append_entry(versioned_entries, version, Head(entries)),
                   version, Tail(entries))

RECURSIVE LoadVersions(_, _, _)
LoadVersions(versioned_entries, artifact_path, versions) ==
    IF versions = <<>> THEN versioned_entries
    ELSE LoadVersions(
            AppendAll(versioned_entries, Head(versions),
                      VersionEntries(Child(artifact_path, Head(versions)))),
            artifact_path, Tail(versions))

\* __load_artifact when no listing raises.  self stands for the identity of
\* the object: Artifact defines no __eq__, and each call makes a new object.
load_artifact(artifact_path, artifact_id) ==
    [self |-> artifact_path, id |-> artifact_id,
     versioned_entries |-> LoadVersions(<<>>, artifact_path, Listdir(artifact_path))]

Group(id, path) == [id |-> id, path |-> path, artifacts |-> <<>>]

add_artifact(group, artifact) ==
    IF artifact \notin Range(group.artifacts)
    THEN [group EXCEPT !.artifacts = Append(@, artifact)]
    ELSE group

\* Group.merge: self.id.equals(...) is evaluated first, and a str has no
\* attribute equals
MergeRaises(self, other_group) == TRUE

RECURSIVE AddArtifacts(_, _)
AddArtifacts(group, artifacts) ==
    IF artifacts = <<>> THEN group
    ELSE AddArtifacts(add_artifact(group, Head(artifacts)), Tail(artifacts))

\* Group.merge when nothing raises
merge(self, other_group) ==
    IF self.id = other_group.id THEN AddArtifacts(self, other_group.artifacts)
    ELSE self

HasGroup(groups, id) == \E i \in DOMAIN groups : groups[i].id = id

GroupOf(groups, id) == groups[CHOOSE i \in DOMAIN groups : groups[i].id = id]

\* ArtifactRepo.add_group raises (through Group.merge)
AddGroupRaises(groups, group) ==
    HasGroup(groups, group.id) /\ MergeRaises(GroupOf(groups, group.id), group)

add_group(groups, group) ==
    IF HasGroup(groups, group.id)
    THEN [i \in DOMAIN groups |->
            IF groups[i].id = group.id THEN merge(groups[i], group) ELSE groups[i]]
    ELSE Append(groups, group)


(***************************************************************************)
(* The target tree.  A path is the sequence of its segments below          *)
(* target_dir; dirs holds <<>> when target_dir itself exists.              *)
(***************************************************************************)
NoNode == Node(0, NoName, NoGroup, NoName, NoName, NoName, NoName)

\* what a file holds: the bytes of a source file, bytes from before the
\* first run, or what an interrupted copy left
BytesOf(src) == [kind |-> "bytes", of |-> src]
OldBytes == [kind |-> "old", of |-> NoNode]
PartialBytes == [kind |-> "partial", of |-> NoNode]

NoFiles == [p \in {} |-> OldBytes]

Prefixes(p) == {SubSeq(p, 1, k) : k \in 0..Len(p)}

Put(files, p, bytes) ==
    [q \in DOMAIN files \cup {p} |-> IF q = p THEN bytes ELSE files[q]]

Keep(files, paths) == [q \in DOMAIN files \cap paths |-> files[q]]

\* os.path.exists
PathExists(fs, p) == p \in fs.dirs \/ p \in DOMAIN fs.files

\* os.makedirs
makedirs(fs, p) == [fs EXCEPT !.dirs = @ \cup Prefixes(p)]

\* faulty variant: an existing destination is left as it is
CopyfileNoClobber(fs, src, dst) ==
    IF dst \in DOMAIN fs.files THEN fs
    ELSE [fs EXCEPT !.files = Put(@, dst, BytesOf(src))]

\* shutil.copyfile(src, dst) that succeeds: dst is opened for writing, which
\* empties it, and filled with the bytes of src
copyfile(fs, src, dst) == [fs EXCEPT !.files = Put(@, dst, BytesOf(src))]

\* shutil.copyfile that raises after it opened dst (the disk fills up, a read
\* of src fails)
CopyfileInterrupted(fs, dst) == [fs EXCEPT !.files = Put(@, dst, PartialBytes)]

\* faulty variant: only directories that hold no file are removed (os.removedirs)
RmtreeEmptyDirsOnly(fs) ==
    [fs EXCEPT !.dirs = {d \in @ : \E p \in DOMAIN fs.files : d \in Prefixes(p)}]

\* shutil.rmtree that succeeds
rmtree(fs) == [dirs |-> {}, files |-> NoFiles]

\* shutil.rmtree that raises after it removed all but the files in kept
RmtreeInterrupted(fs, kept) ==
    [dirs |-> {d \in fs.dirs : d = <<>> \/ \E p \in kept : d \in Prefixes(p)},
     files |-> Keep(fs.files, kept)]

(***************************************************************************)
(* Target paths.                                                           *)
(***************************************************************************)
\* faulty variant: the identifier is used as it is
GetAsPathNoReplace(id) == id

\* Group.get_as_path: self.id.replace('.', '/')
get_as_path(id) == [i \in DOMAIN id |-> IF id[i] = "." THEN "/" ELSE id[i]]

\* a one-token string
Str(name) == <<name>>

\* the segments of a relative path string
RECURSIVE Segments(_)
Segments(s) ==
    IF s = <<>> THEN <<>>
    ELSE IF Head(s) = "/" THEN Segments(Tail(s))
    ELSE LET stops == {i \in DOMAIN s : s[i] = "/"} \cup {Len(s) + 1}
             k == CHOOSE i \in stops : \A j \in stops : i <= j
         IN  <<SubSeq(s, 1, k - 1)>> \o Segments(SubSeq(s, k, Len(s)))

\* os.path.join(base, rel) for a relative rel
OsPathJoin(base, rel) == base \o Segments(rel)

target_dir == <<>>

\* the loops of MavenRepoWriter.write, flattened: one item per execution of
\* the innermost body
VersionItems(artifact_path, ve) ==
    LET version_path == OsPathJoin(artifact_path, Str(ve.version))
    IN  [k \in DOMAIN ve.entries |->
            [version_path |-> version_path, entry |-> ve.entries[k]]]

ArtifactItems(group_path, artifact) ==
    LET artifact_path == OsPathJoin(group_path, Str(artifact.id))
    IN  Flatten([j \in DOMAIN artifact.versioned_entries |->
                    VersionItems(artifact_path, artifact.versioned_entries[j])])

GroupItems(group) ==
    LET group_path == OsPathJoin(target_dir, get_as_path(group.id))
    IN  Flatten([j \in DOMAIN group.artifacts |->
                    ArtifactItems(group_path, group.artifacts[j])])

WriteItems(groups) == Flatten([i \in DOMAIN groups |-> GroupItems(groups[i])])

entry_path(item) == OsPathJoin(item.version_path, Str(item.entry.file_name))

\* lines 138-139
EnsureVersionDir(fs, version_path) ==
    IF ~PathExists(fs, version_path) THEN makedirs(fs, version_path) ELSE fs

\* faulty variant: the writer starts from an empty target directory
EnsureTargetDirFresh(fs) == makedirs([dirs |-> {}, files |-> NoFiles], target_dir)

\* lines 128-129
EnsureTargetDir(fs) ==
    IF ~PathExists(fs, target_dir) THEN makedirs(fs, target_dir) ELSE fs

(***************************************************************************)
(* The loops of GradleCache.__generate_groups and __generate_artifacts,    *)
(* flattened: one item per add_group / add_artifact call, or the listing   *)
(* that raises in its place.                                               *)
(***************************************************************************)
NoItem == [raises |-> TRUE, group |-> Group(NoGroup, NoNode)]

GroupWork ==
    Flatten([i \in DOMAIN Glob |->
        LET module_path == Glob[i]
        IN  IF ListdirRaises(module_path) THEN <<NoItem>>
            ELSE [j \in DOMAIN Listdir(module_path) |->
                    LET group_id == Listdir(module_path)[j]
                    IN  [raises |-> FALSE,
                         group |-> Group(group_id, Child(module_path, group_id))]]])

ArtifactWork(groups) ==
    Flatten([i \in DOMAIN groups |->
        LET group_path == groups[i].path
        IN  IF ListdirRaises(group_path)
            THEN <<[raises |-> TRUE, group_id |-> groups[i].id,
                    artifact_id |-> NoName, artifact_path |-> NoNode]>>
            ELSE [j \in DOMAIN Listdir(group_path) |->
                    LET artifact_id == Listdir(group_path)[j]
                    IN  [raises |-> RaisesUnder(Child(group_path, artifact_id)),
                         group_id |-> groups[i].id,
                         artifact_id |-> artifact_id,
                         artifact_path |-> Child(group_path, artifact_id)]]])


(***************************************************************************)
(* The target tree before the first run.                                   *)
(***************************************************************************)
Path(tokens) == [i \in DOMAIN tokens |-> Str(tokens[i])]

\* a file the tool writes when the cache holds org.foo/bar/1.0.0/*/bar.jar
OldJar == Path(<<"org", "foo", "bar", "1.0.0", "bar.jar">>)
\* a file the tool never writes
OldSha == Path(<<"org", "foo", "bar", "1.0.0", "bar.jar.sha1">>)

TargetAbsent == [dirs |-> {}, files |-> NoFiles]
TargetEmpty == [dirs |-> {<<>>}, files |-> NoFiles]
TargetUsed ==
    [dirs |-> Prefixes(SubSeq(OldJar, 1, 4)),
     files |-> [p \in {OldJar, OldSha} |-> OldBytes]]

Init ==
    /\ cache \in Caches
    /\ listing \in {"forward", "reverse"}
    /\ pre_clean \in BOOLEAN
    /\ target \in {TargetAbsent, TargetEmpty, TargetUsed}
    /\ run = "first"
    /\ pc = "start"
    /\ error = ""
    /\ repo = <<>>
    /\ todo = <<>>
    /\ log = <<>>
    /\ prior = target

Abort(exception) ==
    /\ pc' = "aborted"
    /\ error' = exception

(***************************************************************************)
(* main, lines 154-155: GradleCache() and load up to the first loop.       *)
(***************************************************************************)
Load ==
    /\ pc = "start"
    /\ pc' = "generate_groups"
    /\ todo' = GroupWork
    /\ UNCHANGED <<cache, listing, pre_clean, target, run, error, repo, log, prior>>

\* __generate_groups: one add_group call that returns
AddGroup ==
    /\ pc = "generate_groups"
    /\ todo # <<>>
    /\ ~Head(todo).raises
    /\ ~AddGroupRaises(repo, Head(todo).group)
    /\ repo' = add_group(repo, Head(todo).group)
    /\ todo' = Tail(todo)
    /\ UNCHANGED <<cache, listing, pre_clean, target, run, pc, error, log, prior>>

\* __generate_groups: add_group finds the identifier and Group.merge raises
AddGroupFails ==
    /\ pc = "generate_groups"
    /\ todo # <<>>
    /\ ~Head(todo).raises
    /\ AddGroupRaises(repo, Head(todo).group)
    /\ Abort("AttributeError")
    /\ UNCHANGED <<cache, listing, pre_clean, target, run, repo, todo, log, prior>>

\* os.listdir raises during the scan, in either loop
ListdirFails ==
    /\ pc \in {"generate_groups", "generate_artifacts"}
    /\ todo # <<>>
    /\ Head(todo).raises
    /\ Abort("NotADirectoryError")
    /\ UNCHANGED <<cache, listing, pre_clean, target, run, repo, todo, log, prior>>

\* __load_repo, line 92: the second loop starts
GenerateArtifacts ==
    /\ pc = "generate_groups"
    /\ todo = <<>>
    /\ pc' = "generate_artifacts"
    /\ todo' = ArtifactWork(repo)
    /\ UNCHANGED <<cache, listing, pre_clean, target, run, error, repo, log, prior>>

\* __generate_artifacts: one __load_artifact and add_artifact
AddArtifact ==
    /\ pc = "generate_artifacts"
    /\ todo # <<>>
    /\ ~Head(todo).raises
    /\ LET item == Head(todo)
           artifact == load_artifact(item.artifact_path, item.artifact_id)
       IN  repo' = [i \in DOMAIN repo |->
                       IF repo[i].id = item.group_id
                       THEN add_artifact(repo[i], artifact)
                       ELSE repo[i]]
    /\ todo' = Tail(todo)
    /\ UNCHANGED <<cache, listing, pre_clean, target, run, pc, error, log, prior>>

\* main, line 157: load has returned
Loaded ==
    /\ pc = "generate_artifacts"
    /\ todo = <<>>
    /\ pc' = IF pre_clean THEN "cleanup" ELSE "write"
    /\ UNCHANGED <<cache, listing, pre_clean, target, run, error, repo, todo, log, prior>>

(***************************************************************************)
(* cleanup_mvn_dir.                                                        *)
(***************************************************************************)
CleanupMvnDir ==
    /\ pc = "cleanup"
    /\ PathExists(target, target_dir)
    /\ target' = rmtree(target)
    /\ pc' = "write"
    /\ UNCHANGED <<cache, listing, pre_clean, run, error, repo, todo, log, prior>>

\* faulty variant: the error of shutil.rmtree is swallowed (ignore_errors=True)
CleanupMvnDirFailsIgnored ==
    /\ pc = "cleanup"
    /\ \/ /\ ~PathExists(target, target_dir)
          /\ UNCHANGED target
       \/ /\ PathExists(target, target_dir)
          /\ \E kept \in SUBSET DOMAIN target.files :
                target' = RmtreeInterrupted(target, kept)
    /\ pc' = "write"
    /\ error' = "RmtreeError"
    /\ UNCHANGED <<cache, listing, pre_clean, run, repo, todo, log, prior>>

\* shutil.rmtree raises: the directory is not there, or something in it
\* cannot be removed
CleanupMvnDirFails ==
    /\ pc = "cleanup"
    /\ \/ /\ ~PathExists(target, target_dir)
          /\ UNCHANGED target
       \/ /\ PathExists(target, target_dir)
          /\ \E kept \in SUBSET DOMAIN target.files :
                target' = RmtreeInterrupted(target, kept)
    /\ Abort("RmtreeError")
    /\ UNCHANGED <<cache, listing, pre_clean, run, repo, todo, log, prior>>

(***************************************************************************)
(* MavenRepoWriter.write.                                                  *)
(***************************************************************************)
WriteBegin ==
    /\ pc = "write"
    /\ target' = EnsureTargetDir(target)
    /\ todo' = WriteItems(repo)
    /\ pc' = "copy"
    /\ UNCHANGED <<cache, listing, pre_clean, run, error, repo, log, prior>>

\* a call of shutil.copyfile and how it ended: "copied", "refused" (it raised
\* before it opened dst) or "interrupted" (it raised after)
Attempt(item, outcome) ==
    [src |-> get_full_path(item.entry), dst |-> entry_path(item),
     outcome |-> outcome]

\* one execution of lines 138-141 in which copyfile returns
CopyEntry ==
    /\ pc = "copy"
    /\ todo # <<>>
    /\ LET item == Head(todo)
       IN  /\ get_full_path(item.entry) \in cache.files
           /\ target' = copyfile(EnsureVersionDir(target, item.version_path),
                                 get_full_path(item.entry), entry_path(item))
           /\ log' = Append(log, Attempt(item, "copied"))
    /\ todo' = Tail(todo)
    /\ UNCHANGED <<cache, listing, pre_clean, run, pc, error, repo, prior>>

\* faulty variant: a failed copy is skipped and the loop goes on
CopyEntryFailsSkipped ==
    /\ pc = "copy"
    /\ todo # <<>>
    /\ LET item == Head(todo)
           fs == EnsureVersionDir(target, item.version_path)
       IN  \/ /\ target' = fs
              /\ log' = Append(log, Attempt(item, "refused"))
           \/ /\ target' = CopyfileInterrupted(fs, entry_path(item))
              /\ log' = Append(log, Attempt(item, "interrupted"))
    /\ todo' = Tail(todo)
    /\ error' = "CopyError"
    /\ UNCHANGED <<cache, listing, pre_clean, run, pc, repo, prior>>

\* one execution of lines 138-141 in which copyfile raises: before it opened
\* the destination (no source, no permission) or after it
CopyEntryFails ==
    /\ pc = "copy"
    /\ todo # <<>>
    /\ LET item == Head(todo)
           fs == EnsureVersionDir(target, item.version_path)
       IN  \/ /\ target' = fs
              /\ log' = Append(log, Attempt(item, "refused"))
           \/ /\ target' = CopyfileInterrupted(fs, entry_path(item))
              /\ log' = Append(log, Attempt(item, "interrupted"))
    /\ Abort("CopyError")
    /\ UNCHANGED <<cache, listing, pre_clean, run, repo, todo, prior>>

\* write and main return
WriteReturn ==
    /\ pc = "copy"
    /\ todo = <<>>
    /\ pc' = "done"
    /\ UNCHANGED <<cache, listing, pre_clean, target, run, error, repo, todo, log, prior>>

\* the tool is started again with the same arguments
Rerun ==
    /\ pc = "done"
    /\ run = "first"
    /\ run' = "second"
    /\ pc' = "start"
    /\ repo' = <<>>
    /\ log' = <<>>
    /\ prior' = target
    /\ UNCHANGED <<cache, listing, pre_clean, target, error, todo>>

Next ==
    \/ Load
    \/ AddGroup
    \/ AddGroupFails
    \/ ListdirFails
    \/ GenerateArtifacts
    \/ AddArtifact
    \/ Loaded
    \/ CleanupMvnDir
    \/ CleanupMvnDirFails
    \/ WriteBegin
    \/ CopyEntry
    \/ CopyEntryFails
    \/ WriteReturn
    \/ Rerun

Spec == Init /\ [][Next]_vars


(***************************************************************************)
(* What the properties speak of.                                           *)
(***************************************************************************)
\* a dotted identifier cut at its dots
RECURSIVE DottedParts(_)
DottedParts(id) ==
    IF id = <<>> THEN <<>>
    ELSE LET dots == {i \in DOMAIN id : id[i] = "."} \cup {Len(id) + 1}
             k == CHOOSE i \in dots : \A j \in dots : i <= j
         IN  <<SubSeq(id, 1, k - 1)>> \o DottedParts(SubSeq(id, k + 1, Len(id)))

\* <group with '/' for '.'>/<artifact>/<version> and .../<file> below the target
MavenDir(f) == DottedParts(f.group) \o <<Str(f.artifact), Str(f.version)>>
MavenPath(f) == Append(MavenDir(f), Str(f.file))

SameCoordinates(f, g) ==
    /\ f.group = g.group
    /\ f.artifact = g.artifact
    /\ f.version = g.version
    /\ f.file = g.file

\* the paths this run's copyfile calls opened for writing, and the last call
\* that did so for path p
Touched == {log[i].dst : i \in {j \in DOMAIN log : log[j].outcome # "refused"}}
Copied == {log[i].dst : i \in {j \in DOMAIN log : log[j].outcome = "copied"}}
LastCopy(p, n) ==
    log[CHOOSE i \in 1..n :
            /\ log[i].dst = p /\ log[i].outcome = "copied"
            /\ \A j \in 1..n :
                  log[j].dst = p /\ log[j].outcome = "copied" => j <= i]

\* files of this run, and files from before it that it has not written
NewFiles == DOMAIN target.files \cap Touched
PriorLeft ==
    {p \in DOMAIN target.files : p \in DOMAIN prior.files /\ p \notin Touched}

Scanning == pc \in {"start", "generate_groups", "generate_artifacts"}
WriterInvoked == pc \in {"copy", "done"} \/ error = "CopyError"

\* the Artifact objects of the repository with their groups, and their
\* version buckets
Buckets ==
    {[group_id |-> repo[i].id,
      artifact |-> repo[i].artifacts[j],
      bucket |-> repo[i].artifacts[j].versioned_entries[k]] :
        <<i, j, k>> \in
            {t \in (DOMAIN repo) \X (1..MaxFiles) \X (1..MaxFiles) :
                /\ t[2] \in DOMAIN repo[t[1]].artifacts
                /\ t[3] \in DOMAIN repo[t[1]].artifacts[t[2]].versioned_entries}}

\* the regular files of the cache below the version directory of bucket b
FilesOf(b) ==
    {f \in cache.files :
        Under(f, Child(b.artifact.self, b.bucket.version))}

(***************************************************************************)
(* C1  End-to-end completeness: for every cache in which every level is a  *)
(* directory and no two files share group, artifact, version and name, a   *)
(* run that meets no failure of the file system completes, and every file  *)
(* of the cache is then at <group with '/' for '.'>/<artifact>/<version>/  *)
(* <file> below the target with the bytes of the source file.              *)
(***************************************************************************)
C1_EndToEnd ==
    /\ cache.nondirs = {}
    /\ \A f, g \in cache.files : SameCoordinates(f, g) => f = g
    /\ pc \in {"done", "aborted"}
    /\ error \notin {"CopyError", "RmtreeError"}
    => /\ pc = "done"
       /\ \A f \in cache.files :
             /\ MavenPath(f) \in DOMAIN target.files
             /\ target.files[MavenPath(f)] = BytesOf(f)

(***************************************************************************)
(* C2  Merge-on-insert: add_group called with a Group whose identifier is  *)
(* already a key returns without error, keeps the existing Group and       *)
(* leaves it with the union of both artifact lists, no artifact twice.     *)
(***************************************************************************)
C2_MergeOnInsert ==
    [][(/\ pc = "generate_groups"
        /\ todo # <<>>
        /\ ~Head(todo).raises
        /\ HasGroup(repo, Head(todo).group.id))
       => /\ error' = ""
          /\ pc' = "generate_groups"
          /\ DOMAIN repo' = DOMAIN repo
          /\ \A i \in DOMAIN repo :
                /\ repo'[i].id = repo[i].id
                /\ repo'[i].path = repo[i].path
                /\ repo[i].id # Head(todo).group.id => repo'[i] = repo[i]
                /\ repo[i].id = Head(todo).group.id =>
                      /\ Range(repo'[i].artifacts) =
                            Range(repo[i].artifacts)
                               \cup Range(Head(todo).group.artifacts)
                      /\ Cardinality(Range(repo'[i].artifacts))
                            = Len(repo'[i].artifacts)]_vars

(***************************************************************************)
(* C8  One Entry per file: every version bucket of every loaded Artifact   *)
(* holds exactly one ArtifactEntry for each file below the version         *)
(* directory, located at the content-hash directory that holds the file.   *)
(***************************************************************************)
C8_OneEntryPerFile ==
    \A b \in Buckets :
        /\ Len(b.bucket.entries) = Cardinality(FilesOf(b))
        /\ \A f \in FilesOf(b) :
              \E k \in DOMAIN b.bucket.entries :
                  /\ b.bucket.entries[k] = ArtifactEntry(f.file, Prefix(f, 5))
                  /\ get_full_path(b.bucket.entries[k]) = f


(***************************************************************************)
(* C3  Pre-clean ordering: in a run with --pre_clean_mvn_dir on a target   *)
(* that held files, no state holds both a file this run wrote and a file   *)
(* from before it; every earlier file is gone before the first copyfile    *)
(* call, and once the writer has been invoked none is left that the run    *)
(* did not write again.                                                    *)
(***************************************************************************)
C3_PreCleanOrdering ==
    pre_clean /\ DOMAIN prior.files # {}
    => /\ ~(NewFiles # {} /\ PriorLeft # {})
       /\ log # <<>> => PriorLeft = {}
       /\ pc = "write" \/ WriterInvoked => PriorLeft = {}

\* a pre-clean run over a used target has finished; bar.jar, which was there
\* before, is there again with new bytes and the other earlier file is gone
C3_Witness ==
    /\ pre_clean
    /\ run = "first"
    /\ pc = "done"
    /\ prior = TargetUsed
    /\ OldJar \in NewFiles
    /\ OldSha \notin DOMAIN target.files

(***************************************************************************)
(* C4  Run idempotence: without --pre_clean_mvn_dir, a second run over the *)
(* same cache with the same listing order ends with the target tree        *)
(* exactly as the first run left it, and no run changes or removes a file  *)
(* it does not write.                                                      *)
(***************************************************************************)
C4_RunIdempotent ==
    ~pre_clean
    => /\ run = "second" /\ pc = "done" => target = prior
       /\ \A p \in DOMAIN prior.files :
             p \notin Touched =>
                /\ p \in DOMAIN target.files
                /\ target.files[p] = prior.files[p]
       /\ prior.dirs \subseteq target.dirs

\* the second run has finished; the target holds an old file the tool never
\* writes beside files it copied
C4_Witness ==
    /\ ~pre_clean
    /\ run = "second"
    /\ pc = "done"
    /\ OldSha \in DOMAIN target.files
    /\ target.files[OldSha] = OldBytes
    /\ Cardinality(Copied) >= 2

(***************************************************************************)
(* C5 as claimed.  Traversal errors abort: when a level the layout expects *)
(* is missing or is not a directory (no modules-*/files-* match at all, an *)
(* empty directory above the content-hash level, a regular file in the     *)
(* place of a directory), load ends in an error and the target is neither  *)
(* deleted, created nor written.                                           *)
(***************************************************************************)
Malformed ==
    \/ Glob = <<>>
    \/ cache.nondirs # {}
    \/ \E d \in cache.emptydirs : d.depth <= 4

C5_TraversalErrorsAbort ==
    Malformed /\ run = "first"
    => /\ Scanning \/ pc = "aborted"
       /\ target = prior

(***************************************************************************)
(* C5 as amended.  When a regular file stands where the layout expects a   *)
(* directory (at the files-*, group, artifact, version or content-hash     *)
(* level), load ends in an error, the run aborts and the target is neither *)
(* deleted, created nor written.                                           *)
(***************************************************************************)
C5_NotADirectoryAborts ==
    cache.nondirs # {}
    => /\ Scanning \/ pc = "aborted"
       /\ ~(pc = "generate_artifacts" /\ todo = <<>>)
       /\ pc = "aborted" => error \in {"NotADirectoryError", "AttributeError"}
       /\ target = prior
       /\ log = <<>>

\* a listing has raised after a group had been added, with a used target
\* and the pre-clean flag set
C5_Witness ==
    /\ pc = "aborted"
    /\ error = "NotADirectoryError"
    /\ repo # <<>>
    /\ pre_clean
    /\ target = TargetUsed


(***************************************************************************)
(* C6 as claimed.  Copy failure aborts without rollback or retry: the      *)
(* write stops at the failing entry, nothing after it is copied, the copy  *)
(* is not tried again, and every file copied before the failure is in the  *)
(* target with the bytes that were copied to it.  Stated for the files     *)
(* copied from source files other than the failing one, so that the entry  *)
(* append_entry lists twice (C8) does not decide it.                       *)
(***************************************************************************)
StoppedAtFailure ==
    LET n == Len(log)
        items == WriteItems(repo)
    IN  /\ pc = "aborted"
        /\ n >= 1
        /\ n <= Len(items)
        /\ log[n].outcome # "copied"
        /\ \A i \in 1..(n - 1) : log[i].outcome = "copied"
        /\ \A i \in 1..n :
              /\ log[i].src = get_full_path(items[i].entry)
              /\ log[i].dst = entry_path(items[i])
        /\ todo = SubSeq(items, n, Len(items))
        /\ ~ENABLED Next

C6_CopyFailureKeepsCopies ==
    error = "CopyError"
    => /\ StoppedAtFailure
       /\ \A i \in 1..(Len(log) - 1) :
             log[i].src # log[Len(log)].src =>
                /\ log[i].dst \in DOMAIN target.files
                /\ target.files[log[i].dst]
                      = BytesOf(LastCopy(log[i].dst, Len(log) - 1).src)

(***************************************************************************)
(* C6 as amended.  The same, except for the target path of the failing     *)
(* entry itself: when an earlier entry was copied to that path, a copy     *)
(* that fails after it opened the destination leaves the file there with   *)
(* partial bytes.  Every file copied to another path keeps the bytes       *)
(* copied to it.                                                           *)
(***************************************************************************)
C6_CopyFailureKeepsOtherCopies ==
    error = "CopyError"
    => /\ StoppedAtFailure
       /\ \A i \in 1..(Len(log) - 1) :
             LET dst == log[i].dst
                 bytes == BytesOf(LastCopy(dst, Len(log) - 1).src)
             IN  /\ dst \in DOMAIN target.files
                 /\ dst # log[Len(log)].dst => target.files[dst] = bytes
                 /\ dst = log[Len(log)].dst =>
                       target.files[dst] =
                          IF log[Len(log)].outcome = "interrupted"
                          THEN PartialBytes ELSE bytes

\* a copy failed after it opened a destination to which the file of another
\* content-hash directory had been copied, and a file copied to another path
\* is in place
C6_Witness ==
    /\ error = "CopyError"
    /\ pc = "aborted"
    /\ Len(log) >= 3
    /\ log[Len(log)].outcome = "interrupted"
    /\ \E i \in 1..(Len(log) - 1) :
          /\ log[i].dst = log[Len(log)].dst
          /\ log[i].src # log[Len(log)].src
    /\ \E i \in 1..(Len(log) - 1) :
          /\ log[i].dst # log[Len(log)].dst
          /\ target.files[log[i].dst] = BytesOf(log[i].src)
    /\ Len(todo) >= 2

(***************************************************************************)
(* C7  Pre-clean failure aborts before any write: when shutil.rmtree       *)
(* raises, the run is over, MavenRepoWriter.write is not invoked, no       *)
(* directory is created and no file is copied; a pre-clean run on a target *)
(* directory that does not exist never reaches the writer.                 *)
(***************************************************************************)
C7_PreCleanFailureAborts ==
    /\ error = "RmtreeError"
       => /\ pc = "aborted"
          /\ ~ENABLED Next
          /\ log = <<>>
          /\ target.dirs \subseteq prior.dirs
          /\ \A p \in DOMAIN target.files :
                p \in DOMAIN prior.files /\ target.files[p] = prior.files[p]
    /\ pre_clean /\ ~PathExists(prior, target_dir)
       => pc \notin {"write", "copy", "done"} /\ target = prior

\* rmtree raised on a missing target although the cache holds artifacts
C7_Witness ==
    /\ error = "RmtreeError"
    /\ ~PathExists(target, target_dir)
    /\ \E i \in DOMAIN repo : repo[i].artifacts # <<>>

(***************************************************************************)
(* C9  Last-wins on name collision: after a run that completes, every      *)
(* entry of every version bucket has been copied to                        *)
(* <group-as-path>/<artifact>/<version>/<file_name>, and the file there    *)
(* holds the bytes of the last entry of the bucket with that name, which   *)
(* is the one from the content-hash directory listed last.                 *)
(***************************************************************************)
Position(seq, x) == CHOOSE i \in DOMAIN seq : seq[i] = x

LastNamed(entries, name) ==
    entries[CHOOSE k \in DOMAIN entries :
                /\ entries[k].file_name = name
                /\ \A j \in DOMAIN entries :
                      entries[j].file_name = name => j <= k]

C9_LastWins ==
    pc = "done"
    => \A b \in Buckets : \A k \in DOMAIN b.bucket.entries :
          LET e == b.bucket.entries[k]
              f == get_full_path(e)
              last == LastNamed(b.bucket.entries, e.file_name)
          IN  /\ \E i \in DOMAIN log :
                    /\ log[i].src = f
                    /\ log[i].dst = MavenPath(f)
                    /\ log[i].outcome = "copied"
              /\ MavenPath(f) \in DOMAIN target.files
              /\ target.files[MavenPath(f)] = BytesOf(get_full_path(last))
              /\ \A g \in FilesOf(b) :
                    g.file = e.file_name =>
                       Position(InOrder(HashNames), g.hash)
                          <= Position(InOrder(HashNames), last.location.hash)

\* a completed run over a version with one file name in two content-hash
\* directories, the first of which is listed last
C9_Witness ==
    /\ pc = "done"
    /\ listing = "reverse"
    /\ \E b \in Buckets : \E j, k \in DOMAIN b.bucket.entries :
          /\ b.bucket.entries[j].file_name = b.bucket.entries[k].file_name
          /\ b.bucket.entries[j].location # b.bucket.entries[k].location

(***************************************************************************)
(* C10  No spurious output: after a run that completes into an absent,     *)
(* empty or pre-cleaned target, every file of the target is at             *)
(* <group-as-path>/<artifact>/<version>/<file> of some file of the cache   *)
(* and holds the bytes of a cache file with these coordinates, and every   *)
(* directory of the target is the version directory of some file of the    *)
(* cache or lies above one.                                                *)
(***************************************************************************)
C10_NoSpuriousOutput ==
    pc = "done" /\ (pre_clean \/ DOMAIN prior.files = {})
    => /\ \A p \in DOMAIN target.files :
             \E f \in cache.files :
                /\ MavenPath(f) = p
                /\ \E g \in cache.files :
                      SameCoordinates(f, g) /\ target.files[p] = BytesOf(g)
       /\ \A d \in target.dirs :
             d = target_dir \/ \E f \in cache.files : d \in Prefixes(MavenDir(f))

\* a completed run over a cache with a version or content-hash directory
\* that holds no file, beside a group that has files
C10_Witness ==
    /\ pc = "done"
    /\ DOMAIN target.files # {}
    /\ \E d \in cache.emptydirs :
          /\ d.depth >= 4
          /\ DottedParts(d.group) \o <<Str(d.artifact), Str(d.version)>>
                \notin target.dirs

=============================================================================
